---- MODULE Spec2Model ----
(***************************************************************************)
(* EvaluatorOptimizerLLM (evaluator_optimizer.py): construction of the     *)
(* controller and its evaluation-guided refinement loop, generate; and     *)
(* PassthroughLLM (augmented_llm_passthrough.py), the reference generator. *)
(*                                                                         *)
(* A step of the model is the code that runs between two await points of   *)
(* a coroutine: the collaborators (generator LLM, evaluator LLM, agent     *)
(* scopes) answer by returning or by raising.  A candidate is named by the *)
(* index of the generator call that produced it, so that two candidates    *)
(* are never confused even when their texts are equal.  Texts are          *)
(* sequences of tokens: the fixed parts of a template and the values       *)
(* embedded in it.                                                         *)
(***************************************************************************)
EXTENDS Integers, Sequences, FiniteSets

\* ---- bounds of the model -------------------------------------------------
MaxRefinements == 3

\* ---- QualityRating (evaluator_optimizer.py:22-28) ------------------------
POOR == 0
FAIR == 1
GOOD == 2
EXCELLENT == 3

QualityRating == {POOR, FAIR, GOOD, EXCELLENT}

\* `response = None` / `best_response = None`: no candidate.
None == 0

\* Values the evaluator may give to feedback and focus_areas.
FeedbackTexts == {"too vague"}
FocusAreaLists == {<<>>, <<"clarity", "tone">>}

\* EvaluationResult: the parsed model the evaluator call returns.
EvaluationResult ==
    [rating : QualityRating, feedback : FeedbackTexts,
     needs_improvement : BOOLEAN, focus_areas : FocusAreaLists]

\* Arguments a caller may pass to generate.
Messages == {"request A"}
RequestParams == {"no params", "params"}

VARIABLES
    generator,           \* kind of the generator argument: "Agent", "LLM", "other"
    evaluator,           \* kind of the evaluator argument: "Agent", "LLM", "str", "other"
    llm_factory,         \* whether an llm_factory was given
    history_enabled,     \* truth value of self.history
    min_rating,          \* self.min_rating
    max_refinements,     \* self.max_refinements
    refinement_history,  \* self.refinement_history
    pc,                  \* position of the constructor / the generate coroutine
    message,             \* generate's argument message
    request_params,      \* generate's argument request_params
    refinement_count,    \* local refinement_count
    response,            \* local response
    best_response,       \* local best_response
    best_rating,         \* local best_rating
    stack,               \* scopes held by the AsyncExitStack, in entry order
    released,            \* scopes released at exit, in release order
    calls,               \* collaborator calls issued by this generate call
    sent,                \* arguments of the latest collaborator call
    appended,            \* the records this generate call has appended
    result,              \* value returned by generate (None while none)
    error,               \* exception raised ("none" while none)
    parked,              \* the frame of a second, suspended generate call
    pt_in,               \* PassthroughLLM: the latest call and its argument
    pt_out,              \* PassthroughLLM: how that call ended, and its value
    fixed_response,      \* PassthroughLLM: self._fixed_response
    tool_calls           \* PassthroughLLM: aggregator.call_tool calls of the latest call

config == <<generator, evaluator, llm_factory, history_enabled,
            min_rating, max_refinements>>
args == <<message, request_params>>
locals == <<refinement_count, response, best_response, best_rating>>
passthrough == <<pt_in, pt_out, fixed_response, tool_calls>>
outside == <<parked, passthrough>>
vars == <<generator, evaluator, llm_factory, history_enabled, min_rating,
          max_refinements, refinement_history, pc, message, request_params,
          refinement_count, response, best_response, best_rating,
          stack, released, calls, sent, appended, result, error,
          parked, pt_in, pt_out, fixed_response, tool_calls>>

Ended == {"idle", "returned", "failed"}

\* ---- helpers -------------------------------------------------------------
RECURSIVE Reverse(_)
Reverse(s) == IF s = <<>> THEN <<>> ELSE Append(Reverse(Tail(s)), Head(s))

Count(kind) == Cardinality({i \in 1..Len(calls) : calls[i] = kind})
GeneratorCalls == Count("generator")
EvaluatorCalls == Count("evaluator")

\* `while refinement_count < self.max_refinements`
LoopGuardLe(count) == count <= max_refinements
LoopGuard(count) == count < max_refinements

\* `if evaluation_result.rating.value > best_rating.value`
IsNewBestGe(evaluation_result) == evaluation_result.rating >= best_rating
IsNewBestLt(evaluation_result) == evaluation_result.rating < best_rating
IsNewBestNe(evaluation_result) == evaluation_result.rating # best_rating
IsNewBest(evaluation_result) == evaluation_result.rating > best_rating

\* `evaluation_result.rating.value >= self.min_rating.value
\*  or not evaluation_result.needs_improvement`
AcceptableAnd(evaluation_result) ==
    /\ evaluation_result.rating >= min_rating
    /\ ~evaluation_result.needs_improvement
AcceptableRatingOnly(evaluation_result) ==
    evaluation_result.rating >= min_rating
Acceptable(evaluation_result) ==
    \/ evaluation_result.rating >= min_rating
    \/ ~evaluation_result.needs_improvement

\* ---- __init__ ---------------------------------------------------------------
\* The exceptions the constructor may raise for its arguments (none: it
\* succeeds).  An object of an unsupported generator type fails at
\* `generator.name` or at the final else, according to what it is.
ConstructErrorsNone(g, e, factory) == {}
ConstructErrors(g, e, factory) ==
    IF g = "other" THEN {"AttributeError", "ValueError"}
    ELSE IF g = "Agent" /\ ~factory THEN {"ValueError"}
    ELSE IF e = "LLM" THEN {}
    ELSE IF e \in {"Agent", "str"} THEN (IF factory THEN {} ELSE {"ValueError"})
    ELSE {"ValueError"}

\* ---- prompt builders --------------------------------------------------------
\* str(...) of a candidate, of a rating and of an iteration number.  How a
\* rating prints depends on the interpreter; what matters is that distinct
\* ratings print differently.
CandidateText(c) ==
    <<"candidate 1", "candidate 2", "candidate 3", "candidate 4",
      "candidate 5", "candidate 6", "candidate 7", "candidate 8">>[c]
RatingText(r) == <<"POOR", "FAIR", "GOOD", "EXCELLENT">>[r + 1]
NumberText(n) == <<"1", "2", "3", "4", "5", "6", "7", "8">>[n]

\* `", ".join(items)`
RECURSIVE Join(_)
Join(items) ==
    IF Len(items) <= 1 THEN items
    ELSE <<Head(items), ", ">> \o Join(Tail(items))

\* `{self.evaluator.instruction}` in _build_eval_prompt: a str has no such
\* attribute, an Agent and an AugmentedLLM have it.
BuildEvalPromptRaises == evaluator = "str"
EvaluatorInstruction == "evaluation criteria"

\* _build_eval_prompt
BuildEvalPromptNoCriteria(original_request, current_response, iteration) ==
    <<"Evaluate the response for iteration", NumberText(iteration + 1),
      "<fastagent:request>", original_request, "</fastagent:request>",
      "<fastagent:response>", current_response, "</fastagent:response>",
      "<fastagent:evaluation-criteria>", "</fastagent:evaluation-criteria>",
      "<fastagent:instruction>">>
BuildEvalPrompt(original_request, current_response, iteration) ==
    <<"Evaluate the response for iteration", NumberText(iteration + 1),
      "<fastagent:request>", original_request, "</fastagent:request>",
      "<fastagent:response>", current_response, "</fastagent:response>",
      "<fastagent:evaluation-criteria>", EvaluatorInstruction,
      "</fastagent:evaluation-criteria>",
      "<fastagent:instruction>">>

\* `", ".join(feedback.focus_areas) if feedback.focus_areas else "None specified"`
FocusAreasFieldNoDefault(focus_areas) == Join(focus_areas)
FocusAreasFieldReversed(focus_areas) == 
    IF focus_areas # <<>> THEN Join(Reverse(focus_areas)) ELSE <<"None specified">>
FocusAreasField(focus_areas) ==
    IF focus_areas # <<>> THEN Join(focus_areas) ELSE <<"None specified">>

\* _build_refinement_prompt
PreviousResponseBlockAlways(current_response) ==
    <<"<fastagent:previous-response>", current_response,
      "</fastagent:previous-response>">>
PreviousResponseBlock(current_response) ==
    IF ~history_enabled
    THEN <<"<fastagent:previous-response>", current_response,
           "</fastagent:previous-response>">>
    ELSE <<>>

RefinementInstruction ==
    IF ~history_enabled
    THEN <<"<fastagent:instruction>",
           "Create an improved version of the response">>
    ELSE <<"<fastagent:instruction>",
           "Your previous response is available in your conversation history.",
           "Create an improved version">>

BuildRefinementPrompt(original_request, current_response, feedback, iteration) ==
    <<"This is iteration", NumberText(iteration + 1), "of the refinement process",
      "<fastagent:request>", original_request, "</fastagent:request>">>
    \o PreviousResponseBlock(current_response)
    \o <<"<fastagent:feedback>",
         "<rating>", RatingText(feedback.rating), "</rating>",
         "<details>", feedback.feedback, "</details>",
         "<focus-areas>">>
    \o FocusAreasField(feedback.focus_areas)
    \o <<"</focus-areas>", "</fastagent:feedback>">>
    \o RefinementInstruction

\* ---- pieces of generate -----------------------------------------------------
\* The arguments of a collaborator call: the message, and the caller's
\* request_params handed on.
CallArgsNoParams(to, msg) ==
    [to |-> to, message |-> msg, request_params |-> "no params"]
CallArgs(to, msg) ==
    [to |-> to, message |-> msg, request_params |-> request_params]

\* No collaborator call is issued in this step.
NoCall == calls' = calls /\ sent' = sent

\* Leaving `async with contextlib.AsyncExitStack()`: by `return`, or by an
\* exception passing through; the held scopes are released last-in first-out.
ExitFifo(p, r, e) ==
    /\ pc' = p
    /\ result' = r
    /\ error' = e
    /\ released' = stack
    /\ stack' = <<>>
Exit(p, r, e) ==
    /\ pc' = p
    /\ result' = r
    /\ error' = e
    /\ released' = Reverse(stack)
    /\ stack' = <<>>

\* The exception of a failed collaborator call leaves generate unhandled.
RaiseSwallowed(e) == Exit("returned", best_response, "none") /\ NoCall
Raise(e) == Exit("failed", None, e) /\ NoCall

\* `response = await self.generator_llm.generate(message=..., request_params=...)`
\* is issued.
CallGeneratorToEvaluator(p, msg) ==
    /\ pc' = p
    /\ calls' = Append(calls, "evaluator")
    /\ sent' = CallArgs("evaluator", msg)
    /\ UNCHANGED <<result, error, stack, released>>
CallGenerator(p, msg) ==
    /\ pc' = p
    /\ calls' = Append(calls, "generator")
    /\ sent' = CallArgs("generator", msg)
    /\ UNCHANGED <<result, error, stack, released>>

\* Top of the while loop with the locals as just assigned: either the
\* evaluation prompt is built and the evaluator is called, or the loop is
\* exhausted and best_response is returned.
LoopTop(count, current, best) ==
    IF LoopGuard(count)
    THEN IF BuildEvalPromptRaises
         THEN Raise("AttributeError")
         ELSE /\ pc' = "evaluating"
              /\ calls' = Append(calls, "evaluator")
              /\ sent' = CallArgs("evaluator",
                            BuildEvalPrompt(message, CandidateText(current), count))
              /\ UNCHANGED <<result, error, stack, released>>
    ELSE Exit("returned", best, "none") /\ NoCall

\* The frame of the generate call that is running.
Frame ==
    [pc |-> pc, message |-> message, request_params |-> request_params,
     refinement_count |-> refinement_count, response |-> response,
     best_response |-> best_response, best_rating |-> best_rating,
     stack |-> stack, released |-> released, calls |-> calls, sent |-> sent,
     appended |-> appended, result |-> result, error |-> error]

\* No call: the frame generate starts from.
NoSent == [to |-> "nobody", message |-> <<>>, request_params |-> "no params"]
IdleFrame ==
    [pc |-> "idle", message |-> "request A", request_params |-> "no params",
     refinement_count |-> 0, response |-> None,
     best_response |-> None, best_rating |-> POOR,
     stack |-> <<>>, released |-> <<>>, calls |-> <<>>, sent |-> NoSent,
     appended |-> <<>>, result |-> None, error |-> "none"]

\* PassthroughLLM: nothing received, nothing produced yet.
NoMessage == [kind |-> "none", text |-> "", items |-> <<>>]

\* PassthroughLLM.__init__: `self._fixed_response: str | None = None`
NoFixedResponse == [is_none |-> TRUE, text |-> <<>>]

\* ---- initial state: the constructor is about to run ---------------------------
Init ==
    /\ generator \in {"Agent", "LLM", "other"}
    /\ evaluator \in {"Agent", "LLM", "str", "other"}
    /\ llm_factory \in BOOLEAN
    /\ history_enabled \in BOOLEAN
    /\ min_rating \in QualityRating
    /\ max_refinements \in 0..MaxRefinements
    /\ refinement_history = <<>>
    /\ pc = "new"
    /\ message = "request A"
    /\ request_params = "no params"
    /\ refinement_count = 0
    /\ response = None
    /\ best_response = None
    /\ best_rating = POOR
    /\ stack = <<>>
    /\ released = <<>>
    /\ calls = <<>>
    /\ sent = NoSent
    /\ appended = <<>>
    /\ result = None
    /\ error = "none"
    /\ parked = IdleFrame
    /\ pt_in = [op |-> "none", arg |-> NoMessage]
    /\ pt_out = [status |-> "none", value |-> NoMessage]
    /\ fixed_response = NoFixedResponse
    /\ tool_calls = <<>>

\* ---- actions --------------------------------------------------------------
\* __init__ runs: it raises, or leaves a controller ready for generate.
Construct ==
    /\ pc = "new"
    /\ IF ConstructErrors(generator, evaluator, llm_factory) = {}
       THEN pc' = "idle" /\ error' = error
       ELSE /\ pc' = "construct_failed"
            /\ error' \in ConstructErrors(generator, evaluator, llm_factory)
    /\ UNCHANGED <<config, args, locals, refinement_history, stack, released,
                   calls, sent, appended, result, outside>>

\* generate is called: locals and self.refinement_history are reset, then the
\* coroutine runs to its first await.
CallKeepsHistory(msg, params) ==
    /\ pc \in Ended
    /\ message' = msg
    /\ request_params' = params
    /\ refinement_count' = 0
    /\ response' = None
    /\ best_response' = None
    /\ best_rating' = POOR
    /\ refinement_history' = refinement_history
    /\ appended' = <<>>
    /\ stack' = <<>>
    /\ released' = <<>>
    /\ result' = None
    /\ error' = "none"
    /\ IF generator = "Agent"
       THEN pc' = "enter_generator" /\ calls' = <<>> /\ sent' = NoSent
       ELSE IF evaluator = "Agent"
            THEN pc' = "enter_evaluator" /\ calls' = <<>> /\ sent' = NoSent
            ELSE /\ pc' = "generating"
                 /\ calls' = <<"generator">>
                 /\ sent' = [to |-> "generator", message |-> <<msg>>,
                             request_params |-> params]
    /\ UNCHANGED <<config, outside>>
Call(msg, params) ==
    /\ pc \in Ended
    /\ message' = msg
    /\ request_params' = params
    /\ refinement_count' = 0
    /\ response' = None
    /\ best_response' = None
    /\ best_rating' = POOR
    /\ refinement_history' = <<>>
    /\ appended' = <<>>
    /\ stack' = <<>>
    /\ released' = <<>>
    /\ result' = None
    /\ error' = "none"
    /\ IF generator = "Agent"
       THEN pc' = "enter_generator" /\ calls' = <<>> /\ sent' = NoSent
       ELSE IF evaluator = "Agent"
            THEN pc' = "enter_evaluator" /\ calls' = <<>> /\ sent' = NoSent
            ELSE /\ pc' = "generating"
                 /\ calls' = <<"generator">>
                 /\ sent' = [to |-> "generator", message |-> <<msg>>,
                             request_params |-> params]
    /\ UNCHANGED <<config, outside>>

\* `await stack.enter_async_context(self.generator)` returns.
EnterGenerator ==
    /\ pc = "enter_generator"
    /\ stack' = Append(stack, "generator")
    /\ IF evaluator = "Agent"
       THEN pc' = "enter_evaluator" /\ NoCall
       ELSE /\ pc' = "generating"
            /\ calls' = Append(calls, "generator")
            /\ sent' = CallArgs("generator", <<message>>)
    /\ UNCHANGED <<config, args, locals, refinement_history, appended,
                   released, result, error, outside>>

\* `await stack.enter_async_context(self.evaluator)` returns.
EnterEvaluator ==
    /\ pc = "enter_evaluator"
    /\ stack' = Append(stack, "evaluator")
    /\ pc' = "generating"
    /\ calls' = Append(calls, "generator")
    /\ sent' = CallArgs("generator", <<message>>)
    /\ UNCHANGED <<config, args, locals, refinement_history, appended,
                   released, result, error, outside>>

\* Entering a scope raises.
EnterFails ==
    /\ pc \in {"enter_generator", "enter_evaluator"}
    /\ Raise("EnterError")
    /\ UNCHANGED <<config, args, locals, refinement_history, appended, outside>>

\* The initial generator call returns a candidate.
InitialGenerationReturns ==
    /\ pc = "generating"
    /\ response' = GeneratorCalls
    /\ best_response' = GeneratorCalls
    /\ LoopTop(refinement_count, GeneratorCalls, GeneratorCalls)
    /\ UNCHANGED <<config, args, refinement_count, best_rating,
                   refinement_history, appended, outside>>

\* The evaluator call returns a parsed EvaluationResult.
EvaluatorReturns(evaluation_result) ==
    /\ pc = "evaluating"
    /\ refinement_history' = Append(refinement_history,
           [attempt |-> refinement_count + 1,
            response |-> response,
            evaluation_result |-> evaluation_result])
    /\ appended' = Append(appended,
           [attempt |-> refinement_count + 1,
            response |-> response,
            evaluation_result |-> evaluation_result])
    /\ IF IsNewBest(evaluation_result)
       THEN best_rating' = evaluation_result.rating /\ best_response' = response
       ELSE UNCHANGED <<best_rating, best_response>>
    /\ IF Acceptable(evaluation_result)
       THEN Exit("returned", best_response', "none") /\ NoCall
       ELSE CallGenerator("refining",
                BuildRefinementPrompt(message, CandidateText(response),
                                      evaluation_result, refinement_count))
    /\ UNCHANGED <<config, args, refinement_count, response, outside>>

\* A refinement generator call returns a candidate.
RefinementReturns ==
    /\ pc = "refining"
    /\ response' = GeneratorCalls
    /\ refinement_count' = refinement_count + 1
    /\ LoopTop(refinement_count + 1, GeneratorCalls, best_response)
    /\ UNCHANGED <<config, args, best_response, best_rating,
                   refinement_history, appended, outside>>

\* A generator call (initial or refinement) raises.
GeneratorFails ==
    /\ pc \in {"generating", "refining"}
    /\ Raise("GeneratorError")
    /\ UNCHANGED <<config, args, locals, refinement_history, appended, outside>>

\* The evaluator call raises: a transport fault ("EvaluatorError"), or its
\* output does not validate as an EvaluationResult ("ValidationError").
EvaluatorFailsRecorded(e) ==
    /\ pc = "evaluating"
    /\ Raise(e)
    /\ refinement_history' = Append(refinement_history,
           [attempt |-> refinement_count + 1,
            response |-> response,
            evaluation_result |-> [rating |-> POOR, feedback |-> "too vague",
                needs_improvement |-> TRUE, focus_areas |-> <<>>]])
    /\ UNCHANGED <<config, args, locals, appended, outside>>
EvaluatorFails(e) ==
    /\ pc = "evaluating"
    /\ Raise(e)
    /\ UNCHANGED <<config, args, locals, refinement_history, appended, outside>>

\* The task running generate is cancelled while it awaits: CancelledError is
\* raised at the await.
Cancelled ==
    /\ pc \in {"enter_generator", "enter_evaluator", "generating",
               "evaluating", "refining"}
    /\ Raise("CancelledError")
    /\ UNCHANGED <<config, args, locals, refinement_history, appended, outside>>

Next ==
    \/ Construct
    \/ \E msg \in Messages, params \in RequestParams : Call(msg, params)
    \/ EnterGenerator
    \/ EnterEvaluator
    \/ EnterFails
    \/ InitialGenerationReturns
    \/ \E evaluation_result \in EvaluationResult : EvaluatorReturns(evaluation_result)
    \/ RefinementReturns
    \/ GeneratorFails
    \/ \E e \in {"EvaluatorError", "ValidationError"} : EvaluatorFails(e)
    \/ Cancelled

Spec == Init /\ [][Next]_vars

\* Every awaited collaborator call eventually returns or raises.
Respond ==
    \/ EnterGenerator
    \/ EnterEvaluator
    \/ EnterFails
    \/ InitialGenerationReturns
    \/ \E evaluation_result \in EvaluationResult : EvaluatorReturns(evaluation_result)
    \/ RefinementReturns
    \/ GeneratorFails
    \/ \E e \in {"EvaluatorError", "ValidationError"} : EvaluatorFails(e)

FairSpec == Spec /\ WF_vars(Respond)

TypeOK ==
    /\ pc \in {"new", "construct_failed", "idle", "enter_generator", "enter_evaluator", "generating",
               "evaluating", "refining", "returned", "failed"}
    /\ refinement_count \in 0..MaxRefinements
    /\ best_rating \in QualityRating
    /\ Len(refinement_history) <= MaxRefinements

\* ---- properties -----------------------------------------------------------
\* Ratings of the records appended so far, and the index of the earliest
\* record whose rating is the maximum of them.
RatingAt(i) == refinement_history[i].evaluation_result.rating
NeedsAt(i) == refinement_history[i].evaluation_result.needs_improvement
Records == 1..Len(refinement_history)
IsMaxRating(i) == \A j \in Records : RatingAt(j) <= RatingAt(i)
EarliestBest == CHOOSE i \in Records :
    IsMaxRating(i) /\ \A j \in Records : IsMaxRating(j) => i <= j
Returned == pc = "returned"
InFlight == pc \in {"generating", "evaluating", "refining"}
Running == pc \in {"enter_generator", "enter_evaluator", "generating",
                   "evaluating", "refining"}

\* C1: for max_refinements >= 1, the candidate generate returns is the
\* candidate of the earliest refinement record whose rating is the maximum
\* rating over all records of the call.
C1_ReturnsEarliestBest ==
    (Returned /\ max_refinements >= 1) =>
        /\ Records # {}
        /\ result = refinement_history[EarliestBest].response

\* C1 witness: a call returned after two records tied at the maximum rating.
C1_Witness ==
    /\ Returned
    /\ Len(refinement_history) >= 2
    /\ IsMaxRating(1) /\ IsMaxRating(2)
    /\ refinement_history[1].response # refinement_history[2].response
    /\ result = refinement_history[1].response

\* C2: once records exist, best_rating is the maximum rating among them and
\* best_response the candidate of the first record reaching it; while no
\* record exists best_rating is POOR and best_response is the initial
\* candidate (the current response, None until the generator has answered).
C2_BestTracksHistory ==
    /\ Records # {} =>
        /\ best_rating = RatingAt(EarliestBest)
        /\ best_response = refinement_history[EarliestBest].response
    /\ Records = {} =>
        /\ best_rating = POOR
        /\ best_response = response
        /\ response \in {None, 1}

\* C2 witness: mid-call, three records, the maximum reached first by the
\* second one and matched again by the third.
C2_Witness ==
    /\ pc = "refining"
    /\ Len(refinement_history) = 3
    /\ RatingAt(1) < RatingAt(2) /\ RatingAt(3) = RatingAt(2)
    /\ best_response = refinement_history[2].response

\* C3: one generate call makes at most max_refinements + 1 generator calls
\* and at most max_refinements evaluator calls.
C3_CallBounds ==
    /\ GeneratorCalls <= max_refinements + 1
    /\ EvaluatorCalls <= max_refinements

\* C3 witness: an exhausted loop that used every allowed call.
C3_Witness ==
    /\ Returned
    /\ max_refinements >= 2
    /\ GeneratorCalls = max_refinements + 1
    /\ EvaluatorCalls = max_refinements

\* C4: when an evaluation arrives, generate returns best_response without a
\* further collaborator call exactly if rating >= min_rating or
\* needs_improvement is false; otherwise exactly one refinement generator
\* call is issued.
C4_Termination ==
    [][(pc = "evaluating" /\ Len(refinement_history') = Len(refinement_history) + 1) =>
         LET ev == refinement_history'[Len(refinement_history')].evaluation_result
         IN  IF ev.rating >= min_rating \/ ~ev.needs_improvement
             THEN /\ pc' = "returned"
                  /\ result' = best_response'
                  /\ calls' = calls
             ELSE /\ pc' = "refining"
                  /\ calls' = Append(calls, "generator")]_vars

\* C4 witness: the conflict case of a low rating with needs_improvement
\* false ended the call.
C4_Witness ==
    /\ Returned
    /\ Records # {}
    /\ RatingAt(Len(refinement_history)) < min_rating
    /\ ~NeedsAt(Len(refinement_history))

\* C5: if the first evaluation has rating >= min_rating or needs_improvement
\* false, the call makes exactly one generator and one evaluator call.
C5_FirstAccepts ==
    (Records # {} /\ (RatingAt(1) >= min_rating \/ ~NeedsAt(1))) =>
        /\ GeneratorCalls = 1
        /\ EvaluatorCalls = 1
        /\ Returned

\* C5 witness: a first evaluation below min_rating that needs no improvement.
C5_Witness ==
    /\ Returned
    /\ Len(refinement_history) = 1
    /\ RatingAt(1) < min_rating /\ ~NeedsAt(1)
    /\ max_refinements >= 2

\* C6: within one generate call best_rating never decreases.
C6_BestRatingMonotone ==
    [][pc \notin Ended => best_rating' >= best_rating]_vars

\* C6 witness: an evaluation rated below the best so far has been recorded.
C6_Witness ==
    /\ Len(refinement_history) >= 2
    /\ RatingAt(2) < RatingAt(1)
    /\ best_rating = RatingAt(1)

\* Scenario A: min_rating GOOD, max_refinements 3, the evaluator answered
\* POOR, POOR, EXCELLENT, the first two needing improvement.
ScenarioA ==
    /\ min_rating = GOOD
    /\ max_refinements = 3
    /\ Len(refinement_history) = 3
    /\ RatingAt(1) = POOR /\ NeedsAt(1)
    /\ RatingAt(2) = POOR /\ NeedsAt(2)
    /\ RatingAt(3) = EXCELLENT

\* C7 as stated: scenario A ends after 4 generator calls and 3 evaluator
\* calls and returns the candidate evaluated in iteration 3.
C7_ScenarioA_AsStated ==
    (ScenarioA /\ Returned) =>
        /\ GeneratorCalls = 4
        /\ EvaluatorCalls = 3
        /\ result = refinement_history[3].response

\* C7 amended: scenario A ends after 3 generator calls (the initial one and
\* 2 refinements) and 3 evaluator calls and returns the candidate evaluated
\* in iteration 3, which is the third generator call's.
C7_ScenarioA ==
    ScenarioA =>
        /\ Returned
        /\ GeneratorCalls = 3
        /\ EvaluatorCalls = 3
        /\ result = refinement_history[3].response
        /\ result = 3

\* C7 witness: scenario A has run to its end.
C7_Witness == ScenarioA /\ Returned /\ ~NeedsAt(3)

\* Scenario B: min_rating GOOD, max_refinements 2, every evaluation is FAIR
\* and needs improvement.
ScenarioB ==
    /\ min_rating = GOOD
    /\ max_refinements = 2
    /\ Len(refinement_history) = 2
    /\ \A i \in Records : RatingAt(i) = FAIR /\ NeedsAt(i)

\* C8: scenario B ends after exactly 2 evaluator calls and 3 generator calls
\* and returns the candidate evaluated in iteration 1, the initial one.
C8_ScenarioB ==
    (ScenarioB /\ Returned) =>
        /\ EvaluatorCalls = 2
        /\ GeneratorCalls = 3
        /\ result = refinement_history[1].response
        /\ result = 1

\* C8 witness: scenario B has run to its end.
C8_Witness == ScenarioB /\ Returned

\* C9: when every collaborator call eventually returns or raises, a generate
\* call that has started eventually ends, by returning or by failing; when
\* the loop is exhausted it returns best_response.
C9_Terminates ==
    /\ Running ~> (pc \in {"returned", "failed"})
    /\ [][(pc \in {"generating", "refining"} /\ response' # response
              /\ refinement_count' = max_refinements) =>
            (Returned' /\ result' = best_response' /\ error' = "none")]_vars

\* C9 witness: a loop exhausted by an evaluator that never accepted.
C9_Witness ==
    /\ Returned
    /\ max_refinements >= 2
    /\ refinement_count = max_refinements
    /\ \A i \in Records : RatingAt(i) < min_rating /\ NeedsAt(i)
    /\ result = best_response

\* C10: when a generator or evaluator call in flight raises (the step brings
\* neither a candidate nor a record), generate fails with that call's error,
\* issues no further call and returns no candidate; a call that has ended
\* has either returned best_response or failed without a result.
C10_FailurePropagates ==
    /\ [](Returned => (error = "none" /\ result = best_response))
    /\ [](pc = "failed" => (error # "none" /\ result = None))
    /\ [][(InFlight /\ response' = response
              /\ refinement_history' = refinement_history
              /\ error' # "CancelledError") =>
            /\ pc' = "failed"
            /\ result' = None
            /\ calls' = calls
            /\ error' \in (IF pc = "evaluating"
                            THEN {"EvaluatorError", "ValidationError"}
                            ELSE {"GeneratorError"})]_vars
    /\ [][(pc = "failed" /\ calls' # calls) =>
            /\ pc' \in {"enter_generator", "enter_evaluator", "generating"}
            /\ refinement_history' = <<>>
            /\ Len(calls') <= 1]_vars

\* C10 witness: the evaluator call of the second iteration raised after a
\* first record had been kept.
C10_Witness ==
    /\ pc = "failed"
    /\ error = "EvaluatorError"
    /\ Len(refinement_history) = 1
    /\ best_response # None
    /\ result = None

\* C11: best_response, best_rating and the history change only when an
\* evaluator call has returned a parsed EvaluationResult (best_response is
\* first set by the initial generation): when the evaluator call of
\* iteration k raises or is cancelled they keep their values, and the history
\* holds exactly the k-1 records of the completed iterations.
C11_UpdatesOnlyAfterParsedEvaluation ==
    /\ [][(pc = "evaluating" /\ pc' = "failed") =>
            /\ best_response' = best_response
            /\ best_rating' = best_rating
            /\ refinement_history' = refinement_history
            /\ Len(refinement_history') = refinement_count
            /\ \A i \in 1..refinement_count : refinement_history'[i].attempt = i]_vars
    /\ [][(Running /\ (refinement_history' # refinement_history
                        \/ best_rating' # best_rating
                        \/ (best_response' # best_response /\ pc # "generating"))) =>
            /\ pc = "evaluating"
            /\ Len(refinement_history') = Len(refinement_history) + 1
            /\ refinement_history'[Len(refinement_history')].evaluation_result
                   \in EvaluationResult]_vars

\* C11 witness: the evaluator call of the third iteration was cancelled after
\* two records, the second of which had raised the best rating.
C11_Witness ==
    /\ pc = "failed"
    /\ error = "CancelledError"
    /\ sent.to = "evaluator"
    /\ Len(refinement_history) = 2
    /\ RatingAt(1) < RatingAt(2)
    /\ best_rating = RatingAt(2)
    /\ best_response = refinement_history[2].response

\* ---- PassthroughLLM and the EvaluationResult model -----------------------------
controller == <<config, args, locals, refinement_history, pc, stack, released,
                calls, sent, appended, result, error, parked>>

\* Inputs of PassthroughLLM.generate: a text, a structured message, or an
\* ordered sequence of structured messages.
MessageTexts == {"hello", "world"}
TextMessages == [kind : {"str"}, text : MessageTexts, items : {<<>>}]
StructuredMessages == [kind : {"message"}, text : MessageTexts, items : {<<>>}]
MessageLists ==
    [kind : {"list"}, text : {""},
     items : {<<>>} \cup {<<a>> : a \in StructuredMessages}
             \cup {<<a, b>> : a \in StructuredMessages, b \in StructuredMessages}]
GenerateInputs == TextMessages \cup StructuredMessages \cup MessageLists

\* PassthroughLLM.generate: `[message] if isinstance(message, list) else message`
PassthroughGenerate(m) ==
    IF m.kind = "list"
    THEN [kind |-> "list", text |-> "", items |-> <<m>>]
    ELSE m

\* The fields of EvaluationResult, and those declared without a default.
Fields == {"rating", "feedback", "needs_improvement", "focus_areas"}
RequiredFieldsNoFeedback == {"rating", "needs_improvement"}
RequiredFields == {"rating", "feedback", "needs_improvement"}

\* What an evaluator answers before validation: the fields that are present
\* and their values (the value of an absent field is not looked at).
RawResponses ==
    [present : SUBSET Fields, rating : {FAIR}, feedback : FeedbackTexts,
     needs_improvement : BOOLEAN, focus_areas : FocusAreaLists]

\* Inputs of generate_structured: an EvaluationResult instance ("model"), a
\* dict, a JSON text ("str"), a text that is no JSON ("text"), anything else.
StructuredInputs ==
    [kind : {"dict", "str"}, raw : RawResponses]
    \cup [kind : {"model"}, raw : {r \in RawResponses : r.present = Fields}]
    \cup [kind : {"text", "other"},
          raw : {r \in RawResponses : r.present = {} /\ r.needs_improvement
                                      /\ r.focus_areas = <<>>}]

\* EvaluationResult(**fields) / EvaluationResult.model_validate(fields):
\* a field without a default must be present; focus_areas has
\* default_factory=list.
ValidateEvaluationResult(raw) ==
    IF RequiredFields \subseteq raw.present
    THEN [status |-> "ok",
          value |-> [rating |-> raw.rating, feedback |-> raw.feedback,
                     needs_improvement |-> raw.needs_improvement,
                     focus_areas |-> IF "focus_areas" \in raw.present
                                     THEN raw.focus_areas ELSE <<>>]]
    ELSE [status |-> "ValidationError", value |-> NoMessage]

\* PassthroughLLM.generate_structured with response_model=EvaluationResult
PassthroughGenerateStructured(input) ==
    IF input.kind = "model"
    THEN [status |-> "ok",
          value |-> [rating |-> input.raw.rating, feedback |-> input.raw.feedback,
                     needs_improvement |-> input.raw.needs_improvement,
                     focus_areas |-> input.raw.focus_areas]]
    ELSE IF input.kind \in {"dict", "str"} THEN ValidateEvaluationResult(input.raw)
    ELSE IF input.kind = "text" THEN [status |-> "ValueError", value |-> NoMessage]
    ELSE [status |-> "None", value |-> NoMessage]

\* await llm.generate(m)
PassthroughGenerateCall(m) ==
    /\ pt_in' = [op |-> "generate", arg |-> m]
    /\ pt_out' = [status |-> "ok", value |-> PassthroughGenerate(m)]
    /\ tool_calls' = <<>>
    /\ UNCHANGED <<controller, fixed_response>>

\* await llm.generate_structured(input, EvaluationResult)
PassthroughGenerateStructuredCall(input) ==
    /\ pt_in' = [op |-> "generate_structured", arg |-> input]
    /\ pt_out' = PassthroughGenerateStructured(input)
    /\ tool_calls' = <<>>
    /\ UNCHANGED <<controller, fixed_response>>

\* ---- PassthroughLLM: texts, commands and tool results ---------------------------
\* A text is a sequence of tokens: the two indicators, the space " ", the
\* line break "\n", and words that hold no space.
CALL_TOOL_INDICATOR == "***CALL_TOOL"
FIXED_RESPONSE_INDICATOR == "***FIXED_RESPONSE"

\* str.startswith(prefix)
StartsWith(text, prefix) ==
    /\ Len(text) >= Len(prefix)
    /\ SubSeq(text, 1, Len(prefix)) = prefix

\* str.split(" ", maxsplit)
RECURSIVE Split(_, _)
Split(text, maxsplit) ==
    IF maxsplit = 0 \/ \A i \in 1..Len(text) : text[i] # " "
    THEN <<text>>
    ELSE LET i == CHOOSE k \in 1..Len(text) :
                      /\ text[k] = " "
                      /\ \A j \in 1..(k - 1) : text[j] # " "
         IN  <<SubSeq(text, 1, i - 1)>>
                 \o Split(SubSeq(text, i + 1, Len(text)), maxsplit - 1)

\* str.strip()
RECURSIVE Strip(_)
Strip(text) ==
    IF text = <<>> THEN <<>>
    ELSE IF Head(text) = " " THEN Strip(Tail(text))
    ELSE IF text[Len(text)] = " " THEN Strip(SubSeq(text, 1, Len(text) - 1))
    ELSE text

\* "\n".join(texts)
RECURSIVE JoinLines(_)
JoinLines(texts) ==
    IF texts = <<>> THEN <<>>
    ELSE IF Len(texts) = 1 THEN texts[1]
    ELSE texts[1] \o <<"\n">> \o JoinLines(Tail(texts))

\* json.loads(fragment): the words that are JSON documents; white space
\* around the document is allowed.
JsonDocuments == {"{}"}
JsonLoadsLenient(fragment) == [ok |-> TRUE, value |-> Strip(fragment)]
JsonLoads(fragment) ==
    IF Len(Strip(fragment)) = 1 /\ Strip(fragment)[1] \in JsonDocuments
    THEN [ok |-> TRUE, value |-> Strip(fragment)]
    ELSE [ok |-> FALSE, value |-> <<>>]

\* PassthroughLLM._parse_tool_command: the tool name and the arguments
\* (<<"None">> when there are none), or the ValueError it raises.
ParseToolCommand(command) ==
    LET parts == Split(command, 2)
    IN  IF Len(parts) < 2
        THEN [status |-> "ValueError", tool_name |-> <<>>, arguments |-> <<"None">>,
              message |-> <<"Invalid format. Expected '***CALL_TOOL <tool_name> [arguments_json]'">>]
        ELSE IF Len(parts) > 2 /\ ~JsonLoads(parts[3]).ok
        THEN [status |-> "ValueError", tool_name |-> <<>>, arguments |-> <<"None">>,
              message |-> <<"Invalid JSON arguments: ">> \o parts[3]]
        ELSE [status |-> "ok", tool_name |-> Strip(parts[2]),
              arguments |-> IF Len(parts) > 2 THEN JsonLoads(parts[3]).value
                            ELSE <<"None">>,
              message |-> <<>>]

\* A content item of a tool result or of a PromptMessage: its text
\* attribute if it has one, and what str() makes of it.
ContentLists ==
    { <<>>,
      <<[has_text |-> TRUE, text |-> "line one", repr |-> "str(line one)"]>>,
      <<[has_text |-> TRUE, text |-> "line one", repr |-> "str(line one)"],
        [has_text |-> FALSE, text |-> "", repr |-> "str(image)"],
        [has_text |-> TRUE, text |-> "line two", repr |-> "str(line two)"]>> }

\* `content_item.text if hasattr(content_item, "text") else str(content_item)`
ItemText(content_item) ==
    IF content_item.has_text THEN <<content_item.text>> ELSE <<content_item.repr>>
ItemTexts(content) == [i \in 1..Len(content) |-> ItemText(content[i])]

\* PassthroughLLM._format_tool_result
FormatToolResultNoDefault(tool_name, tool_result) ==
    IF tool_result.isError
    THEN <<"Error calling tool '">> \o tool_name \o <<"': ">>
             \o JoinLines(ItemTexts(tool_result.content))
    ELSE JoinLines(ItemTexts(tool_result.content))
FormatToolResult(tool_name, tool_result) ==
    IF tool_result.isError
    THEN <<"Error calling tool '">> \o tool_name \o <<"': ">>
             \o (IF tool_result.content # <<>>
                 THEN JoinLines(ItemTexts(tool_result.content))
                 ELSE <<"Unknown error">>)
    ELSE JoinLines(ItemTexts(tool_result.content))

\* How `await self.aggregator.call_tool(tool_name, arguments)` ends: with a
\* result, or by raising.
ToolOutcomes ==
    [kind : {"result"}, isError : BOOLEAN, content : ContentLists,
     message : {<<>>}]
    \cup [kind : {"raises"}, isError : {FALSE}, content : {<<>>},
          message : {<<"connection lost">>}]

\* PassthroughLLM._call_tool_and_return_result: the text returned and the
\* calls made to the aggregator (tool name, arguments, and how the call
\* ended); every exception is caught and rendered.
CallToolAndReturnResult(command, outcome) ==
    LET parsed == ParseToolCommand(command)
    IN  IF parsed.status # "ok"
        THEN [status |-> "ok",
              text |-> <<"Error calling tool: ">> \o parsed.message,
              tool_calls |-> <<>>]
        ELSE [status |-> "ok",
              text |-> IF outcome.kind = "raises"
                       THEN <<"Error calling tool: ">> \o outcome.message
                       ELSE FormatToolResult(parsed.tool_name, outcome),
              tool_calls |-> <<[tool_name |-> parsed.tool_name,
                                arguments |-> parsed.arguments,
                                outcome |-> outcome]>>]

\* PassthroughLLM.generate_str: a str that starts with "***CALL_TOOL " is a
\* tool command; a PromptMessage gives its parts, one per line; anything
\* else gives str(message).
GenerateStr(m, outcome) ==
    IF m.kind = "str" /\ StartsWith(m.text, <<CALL_TOOL_INDICATOR, " ">>)
    THEN CallToolAndReturnResult(m.text, outcome)
    ELSE IF m.kind = "message"
    THEN [status |-> "ok",
          text |-> JoinLines([i \in 1..Len(m.items) |-> <<m.items[i].repr>>]),
          tool_calls |-> <<>>]
    ELSE [status |-> "ok", text |-> m.text, tool_calls |-> <<>>]

\* The texts given to generate_str and found in prompt messages: ordinary
\* texts, tool commands (complete, without a tool name, with a malformed
\* argument block) and fixed-response commands.
CommandTexts ==
    { <<>>,
      <<"hello">>,
      <<"test-product">>,
      <<CALL_TOOL_INDICATOR>>,
      <<CALL_TOOL_INDICATOR, " ">>,
      <<CALL_TOOL_INDICATOR, " ", "server-tool">>,
      <<CALL_TOOL_INDICATOR, " ", "server-tool", " ", "{}">>,
      <<CALL_TOOL_INDICATOR, " ", "server-tool", " ", "{">>,
      <<CALL_TOOL_INDICATOR, " ", "server-tool", " ", "{", " ", "x">>,
      <<FIXED_RESPONSE_INDICATOR>>,
      <<FIXED_RESPONSE_INDICATOR, " ", "canned">>,
      <<FIXED_RESPONSE_INDICATOR, " ", "other", " ", "canned", " ">> }

GenerateStrInputs ==
    [kind : {"str"}, text : CommandTexts, items : {<<>>}]
    \cup [kind : {"message"}, text : {<<>>},
          items : {c \in ContentLists : Len(c) > 1}]

\* A PromptMessageMultipart is the sequence of its text contents;
\* first_text() is the first of them and all_text() joins them, one per line.
FirstText(multipart) == multipart[1]
AllText(multipart) == JoinLines(multipart)

MultipartMessages ==
    {<<t>> : t \in CommandTexts} \cup {<<<<"hello">>, <<"world">>>>}
\* The prompts applied: one message, or an earlier message (an ordinary
\* one, or a command) followed by one.
EarlierMessages ==
    { <<<<"good morning">>>>,
      <<<<CALL_TOOL_INDICATOR, " ", "server-tool">>>>,
      <<<<FIXED_RESPONSE_INDICATOR, " ", "canned">>>> }
Prompts ==
    {<<m>> : m \in MultipartMessages}
    \cup {<<e, m>> : e \in EarlierMessages, m \in MultipartMessages}

\* PassthroughLLM.is_tool_call
IsToolCall(multipart) == StartsWith(FirstText(multipart), <<CALL_TOOL_INDICATOR>>)

\* `last_message.first_text().split(FIXED_RESPONSE_INDICATOR, 1)[1].strip()`
\* for a text that starts with the indicator.
FixedResponseOf(text) == [is_none |-> FALSE, text |-> Strip(Tail(text))]

\* `if self._fixed_response:` a str that is not empty.
IsStoredNotNone(stored) == ~stored.is_none
IsStored(stored) == ~stored.is_none /\ stored.text # <<>>

\* `"\n".join(message.all_text() for message in multipart_messages)`
ConcatenatedLastOnly(multipart_messages) ==
    AllText(multipart_messages[Len(multipart_messages)])
Concatenated(multipart_messages) ==
    JoinLines([i \in 1..Len(multipart_messages) |-> AllText(multipart_messages[i])])

\* PassthroughLLM._apply_prompt_provider_specific: the text of the assistant
\* message returned, the calls made to the aggregator, and
\* self._fixed_response afterwards.
ApplyPrompt(multipart_messages, outcome) ==
    LET last_message == multipart_messages[Len(multipart_messages)]
        first_text == FirstText(last_message)
        stored == IF StartsWith(first_text, <<FIXED_RESPONSE_INDICATOR>>)
                  THEN FixedResponseOf(first_text)
                  ELSE fixed_response
        generated == GenerateStr([kind |-> "str", text |-> first_text,
                                  items |-> <<>>], outcome)
    IN  IF IsToolCall(last_message)
        THEN [text |-> generated.text, tool_calls |-> generated.tool_calls,
              fixed_response |-> fixed_response]
        ELSE [text |-> IF IsStored(stored) THEN stored.text
                       ELSE Concatenated(multipart_messages),
              tool_calls |-> <<>>,
              fixed_response |-> stored]

\* await llm.generate_str(m); the tool, if called, ends with `outcome`.
PassthroughGenerateStrCall(m, outcome) ==
    /\ pt_in' = [op |-> "generate_str", arg |-> m]
    /\ pt_out' = [status |-> "ok",
                  value |-> [kind |-> "str", text |-> GenerateStr(m, outcome).text,
                             items |-> <<>>]]
    /\ tool_calls' = GenerateStr(m, outcome).tool_calls
    /\ UNCHANGED <<controller, fixed_response>>

\* await llm._apply_prompt_provider_specific(multipart_messages)
PassthroughApplyPromptCall(multipart_messages, outcome) ==
    /\ pt_in' = [op |-> "apply_prompt",
                 arg |-> [kind |-> "prompt", text |-> <<>>,
                          items |-> multipart_messages]]
    /\ pt_out' = [status |-> "ok",
                  value |-> [kind |-> "assistant",
                             text |-> ApplyPrompt(multipart_messages, outcome).text,
                             items |-> <<>>]]
    /\ tool_calls' = ApplyPrompt(multipart_messages, outcome).tool_calls
    /\ fixed_response' = ApplyPrompt(multipart_messages, outcome).fixed_response
    /\ UNCHANGED controller

\* A PassthroughLLM on its own (the controller is left as constructed).
PassthroughInit ==
    /\ Init
    /\ generator = "LLM" /\ evaluator = "LLM" /\ ~llm_factory /\ ~history_enabled
    /\ min_rating = GOOD /\ max_refinements = MaxRefinements

PassthroughNext ==
    \/ \E m \in GenerateInputs : PassthroughGenerateCall(m)
    \/ \E input \in StructuredInputs : PassthroughGenerateStructuredCall(input)
    \/ \E m \in GenerateStrInputs, outcome \in ToolOutcomes :
           PassthroughGenerateStrCall(m, outcome)
    \/ \E multipart_messages \in Prompts, outcome \in ToolOutcomes :
           PassthroughApplyPromptCall(multipart_messages, outcome)

PassthroughSpec == PassthroughInit /\ [][PassthroughNext]_vars

\* C12 as stated: an evaluator response lacking any one of the four fields
\* is a hard error; no missing field is filled with a default.
C12_MissingFieldIsError_AsStated ==
    (pt_in.op = "generate_structured" /\ pt_in.arg.kind \in {"dict", "str"}
        /\ pt_in.arg.raw.present # Fields) =>
        pt_out.status = "ValidationError"

\* C12 amended: a response lacking rating, feedback or needs_improvement is
\* a hard error; a response lacking only focus_areas is accepted with
\* focus_areas the empty list; every field that is present keeps its value.
C12_MissingFieldIsError ==
    (pt_in.op = "generate_structured" /\ pt_in.arg.kind \in {"dict", "str"}) =>
        LET raw == pt_in.arg.raw
        IN  /\ (\E f \in {"rating", "feedback", "needs_improvement"} :
                    f \notin raw.present) => pt_out.status = "ValidationError"
            /\ ({"rating", "feedback", "needs_improvement"} \subseteq raw.present) =>
                 /\ pt_out.status = "ok"
                 /\ pt_out.value.rating = raw.rating
                 /\ pt_out.value.feedback = raw.feedback
                 /\ pt_out.value.needs_improvement = raw.needs_improvement
                 /\ pt_out.value.focus_areas =
                      (IF "focus_areas" \in raw.present THEN raw.focus_areas ELSE <<>>)

\* C12 witness: a response without feedback was rejected.
C12_Witness ==
    /\ pt_in.op = "generate_structured"
    /\ pt_in.arg.kind = "str"
    /\ pt_in.arg.raw.present = Fields \ {"feedback"}
    /\ pt_out.status = "ValidationError"

\* C20 as stated: PassthroughLLM.generate returns its input unchanged for a
\* text, a structured message and an ordered sequence of messages.
C20_GenerateIsIdentity_AsStated ==
    pt_in.op = "generate" => (pt_out.status = "ok" /\ pt_out.value = pt_in.arg)

\* ---- PassthroughLLM: commands -----------------------------------------------------
\* The text the latest call looked at for a command: the str given to
\* generate_str, or the first text of the last message of an applied prompt.
HandledText ==
    IF pt_in.op = "generate_str" /\ pt_in.arg.kind = "str" THEN pt_in.arg.text
    ELSE IF pt_in.op = "apply_prompt"
         THEN pt_in.arg.items[Len(pt_in.arg.items)][1]
         ELSE <<>>
HandlesText == pt_in.op \in {"generate_str", "apply_prompt"}

\* Argument blocks that are no JSON, and the commands that carry one.
MalformedFragments == {<<"{">>, <<"{", " ", "x">>}
MalformedCommand ==
    /\ HandlesText
    /\ StartsWith(HandledText, <<CALL_TOOL_INDICATOR, " ">>)
    /\ Len(HandledText) > 4
    /\ SubSeq(HandledText, 5, Len(HandledText)) \in MalformedFragments

\* C21 as stated: a tool command whose argument block is malformed JSON
\* raises a ToolInvocationError quoting the fragment; the tool collaborator
\* is not called and no generator or evaluator call follows.
C21_MalformedJsonRaises_AsStated ==
    MalformedCommand =>
        /\ pt_out.status = "ToolInvocationError"
        /\ tool_calls = <<>>
        /\ calls = <<>>

\* C21 amended: for a tool command whose argument block is malformed JSON,
\* generate_str and apply-prompt raise nothing: they return the text
\* "Error calling tool: Invalid JSON arguments: " followed by the fragment
\* as written; the tool collaborator is not called, no generator or
\* evaluator call is made and the stored fixed response is left alone.
C21_MalformedJsonRendered ==
    /\ [](MalformedCommand =>
            /\ pt_out.status = "ok"
            /\ pt_out.value.text =
                  <<"Error calling tool: ", "Invalid JSON arguments: ">>
                      \o SubSeq(HandledText, 5, Len(HandledText))
            /\ tool_calls = <<>>
            /\ calls = <<>>)
    /\ [][MalformedCommand' => fixed_response' = fixed_response]_vars

\* C21 witness: generate_str has answered a command whose argument block
\* holds a space, and the whole block is quoted.
C21_Witness ==
    /\ pt_in.op = "generate_str"
    /\ MalformedCommand
    /\ pt_out.value.text = <<"Error calling tool: ", "Invalid JSON arguments: ",
                             "{", " ", "x">>
    /\ tool_calls = <<>>

\* A tool command without a tool identifier: the marker alone, or the marker
\* followed only by spaces.
NoToolIdentifier ==
    /\ HandlesText
    /\ StartsWith(HandledText, <<CALL_TOOL_INDICATOR>>)
    /\ \A i \in 2..Len(HandledText) : HandledText[i] = " "

\* C22 as stated: a tool command with no tool identifier after the marker is
\* a format error on generate_str and on apply-prompt: no tool is invoked,
\* the answer reports the invalid format and is not the input echoed back.
C22_NoToolNameIsFormatError_AsStated ==
    NoToolIdentifier =>
        /\ tool_calls = <<>>
        /\ pt_out.value.text # HandledText
        /\ StartsWith(pt_out.value.text, <<"Error calling tool: ",
               "Invalid format. Expected '***CALL_TOOL <tool_name> [arguments_json]'">>)

\* A well-formed tool command given to generate_str: marker, space, tool
\* name, and possibly a space and a JSON object.
WellFormedCommand ==
    /\ pt_in.op = "generate_str"
    /\ pt_in.arg.kind = "str"
    /\ StartsWith(HandledText, <<CALL_TOOL_INDICATOR, " ">>)
    /\ Len(HandledText) \in {3, 5}
    /\ HandledText[3] \notin {" ", "{", "{}"}
    /\ Len(HandledText) = 5 => (HandledText[4] = " " /\ HandledText[5] = "{}")

\* The content items of the tool's answer, one per line, and the prefix of
\* a reported failure.
ToolLines == JoinLines(ItemTexts(tool_calls[1].outcome.content))
FailurePrefix == <<"Error calling tool '", HandledText[3], "': ">>
InvokedOnce ==
    /\ Len(tool_calls) = 1
    /\ tool_calls[1].tool_name = <<HandledText[3]>>
    /\ tool_calls[1].arguments =
          (IF Len(HandledText) = 5 THEN <<"{}">> ELSE <<"None">>)

\* C23 as stated: for a well-formed tool command on generate_str the named
\* tool is invoked exactly once with the parsed arguments; on success the
\* output is the content items one per line, and when the tool reports
\* failure it is "Error calling tool '<name>': " followed by the error
\* content items one per line.
C23_ToolResultFormat_AsStated ==
    WellFormedCommand =>
        /\ InvokedOnce
        /\ tool_calls[1].outcome.kind = "result" =>
              pt_out.value.text = (IF tool_calls[1].outcome.isError
                                   THEN FailurePrefix \o ToolLines
                                   ELSE ToolLines)

\* C23 amended: the named tool is invoked exactly once with the parsed
\* arguments; on success the output is the content items one per line
\* (empty when there are none); when the tool reports failure it is
\* "Error calling tool '<name>': " followed by the error content items one
\* per line, or by "Unknown error" when there are none; when the call to
\* the tool raises, it is "Error calling tool: " followed by the message.
C23_ToolResultFormat ==
    WellFormedCommand =>
        /\ InvokedOnce
        /\ pt_out.status = "ok"
        /\ LET outcome == tool_calls[1].outcome
           IN  pt_out.value.text =
                 (IF outcome.kind = "raises"
                  THEN <<"Error calling tool: ">> \o outcome.message
                  ELSE IF ~outcome.isError THEN ToolLines
                  ELSE IF outcome.content # <<>> THEN FailurePrefix \o ToolLines
                  ELSE FailurePrefix \o <<"Unknown error">>)

\* C23 witness: the tool reported a failure with three content items, one of
\* them without a text attribute.
C23_Witness ==
    /\ WellFormedCommand
    /\ Len(tool_calls) = 1
    /\ tool_calls[1].arguments = <<"{}">>
    /\ tool_calls[1].outcome.isError
    /\ pt_out.value.text = <<"Error calling tool '", "server-tool", "': ",
                             "line one", "\n", "str(image)", "\n", "line two">>

\* ---- PassthroughLLM: the fixed response --------------------------------------------
\* The latest call applied a prompt whose last message is no command.
AppliedOrdinaryPrompt ==
    /\ pt_in.op = "apply_prompt"
    /\ ~StartsWith(HandledText, <<CALL_TOOL_INDICATOR>>)
    /\ ~StartsWith(HandledText, <<FIXED_RESPONSE_INDICATOR>>)

\* C24 as stated: once the instance has processed a fixed-response command,
\* the answer to every later prompt whose last message is no command is the
\* stored literal, the text after the marker.
C24_FixedResponsePermanent_AsStated ==
    (AppliedOrdinaryPrompt /\ ~fixed_response.is_none) =>
        pt_out.value.text = fixed_response.text

\* ---- PassthroughLLM: applying a prompt ----------------------------------------------
\* The texts of all messages of the applied prompt, in order, one per line.
AppliedPromptText ==
    JoinLines([i \in 1..Len(pt_in.arg.items) |-> JoinLines(pt_in.arg.items[i])])

\* C25 as stated: applying a prompt whose last message is no command, with
\* no fixed response stored, returns an assistant response that is not
\* empty and holds the text of every message of the prompt in order.
C25_ApplyPromptEchoes_AsStated ==
    (AppliedOrdinaryPrompt /\ fixed_response.is_none) =>
        /\ pt_out.status = "ok"
        /\ pt_out.value.kind = "assistant"
        /\ pt_out.value.text # <<>>
        /\ pt_out.value.text = AppliedPromptText

\* C25 amended: applying a prompt whose last message is no command, with no
\* fixed response stored, returns an assistant response whose text is the
\* text of every message of the prompt in order, one per line; it is empty
\* exactly when the prompt is a single message with an empty text; no tool
\* is called.
C25_ApplyPromptEchoes ==
    (AppliedOrdinaryPrompt /\ fixed_response.is_none) =>
        /\ pt_out.status = "ok"
        /\ pt_out.value.kind = "assistant"
        /\ pt_out.value.text = AppliedPromptText
        /\ (pt_out.value.text = <<>>) <=> (pt_in.arg.items = << <<<<>>>> >>)
        /\ tool_calls = <<>>

\* C25 witness: a two-message prompt with a substituted value in its last
\* message was applied, and the value is in the response.
C25_Witness ==
    /\ AppliedOrdinaryPrompt
    /\ fixed_response.is_none
    /\ pt_in.arg.items = << <<<<"good morning">>>>, <<<<"test-product">>>> >>
    /\ pt_out.value.text = <<"good morning", "\n", "test-product">>

\* ---- construction and scopes ----------------------------------------------------
\* C13: constructing the controller with a required factory missing (an
\* Agent generator, an Agent evaluator or a free-text evaluator, without
\* llm_factory) or with an unsupported generator or evaluator type fails in
\* the constructor, before any generator or evaluator call.
C13_Misconfigured ==
    \/ generator = "Agent" /\ ~llm_factory
    \/ evaluator = "Agent" /\ ~llm_factory
    \/ evaluator = "str" /\ ~llm_factory
    \/ generator = "other"
    \/ evaluator = "other"

C13_ConstructionFails ==
    /\ C13_Misconfigured =>
        /\ pc \in {"new", "construct_failed"}
        /\ calls = <<>> /\ sent = NoSent
    /\ pc = "construct_failed" =>
        (C13_Misconfigured /\ error \in {"ValueError", "AttributeError"})

\* C13 witness: free-text criteria without a factory were refused.
C13_Witness ==
    /\ pc = "construct_failed"
    /\ generator = "LLM" /\ evaluator = "str" /\ ~llm_factory
    /\ error = "ValueError"

\* The scopes a generate call needs, in the order it enters them.
ScopesNeeded ==
    (IF generator = "Agent" THEN <<"generator">> ELSE <<>>)
    \o (IF evaluator = "Agent" THEN <<"evaluator">> ELSE <<>>)

\* C14: each scope a generate call needs is entered at most once, at call
\* entry before any collaborator call, and on every exit path (accepting
\* evaluation, loop exhaustion, an error of any call, cancellation, failure
\* to enter a later scope) every scope entered is released, in reverse order
\* of entry.
C14_ScopesReleased ==
    /\ [](\A i, j \in 1..Len(stack) : stack[i] = stack[j] => i = j)
    /\ [](InFlight => stack = ScopesNeeded)
    /\ [](pc \in {"returned", "failed"} =>
            /\ stack = <<>>
            /\ \E n \in 0..Len(ScopesNeeded) :
                   released = Reverse(SubSeq(ScopesNeeded, 1, n))
            /\ (Returned => released = Reverse(ScopesNeeded)))
    /\ [][(Running /\ stack' # stack) =>
            \/ /\ pc \in {"enter_generator", "enter_evaluator"}
               /\ calls = <<>>
               /\ Len(stack') = Len(stack) + 1
               /\ SubSeq(stack', 1, Len(stack)) = stack
            \/ /\ pc' \in {"returned", "failed"}
               /\ stack' = <<>>]_vars
    /\ [][(Running /\ pc' \in {"returned", "failed"}) =>
            /\ stack' = <<>>
            /\ Len(released') = Len(stack)
            /\ \A i \in 1..Len(stack) :
                   released'[i] = stack[Len(stack) + 1 - i]]_vars

\* C14 witness: with both collaborators Agents, a call that failed in its
\* evaluator call released the evaluator's scope, then the generator's.
C14_Witness ==
    /\ pc = "failed"
    /\ error = "EvaluatorError"
    /\ stack = <<>>
    /\ released = <<"evaluator", "generator">>

\* ---- two generate calls on one controller ----------------------------------------
\* The event loop suspends the running generate call at its await (or after
\* it has ended) and runs the other one: the two frames change places.  The
\* controller's attributes, self.refinement_history among them, belong to
\* neither frame.
Switch ==
    /\ pc \notin {"new", "construct_failed"}
    /\ parked' = Frame
    /\ pc' = parked.pc
    /\ message' = parked.message
    /\ request_params' = parked.request_params
    /\ refinement_count' = parked.refinement_count
    /\ response' = parked.response
    /\ best_response' = parked.best_response
    /\ best_rating' = parked.best_rating
    /\ stack' = parked.stack
    /\ released' = parked.released
    /\ calls' = parked.calls
    /\ sent' = parked.sent
    /\ appended' = parked.appended
    /\ result' = parked.result
    /\ error' = parked.error
    /\ UNCHANGED <<config, refinement_history, passthrough>>

\* Two interleaved calls on a controller built from two LLMs.
ConcurrentInit ==
    /\ Init
    /\ generator = "LLM" /\ evaluator = "LLM" /\ ~llm_factory /\ ~history_enabled
    /\ min_rating = GOOD
    /\ max_refinements \in 1..2

ConcurrentNext ==
    \/ Construct
    \/ \E msg \in Messages, params \in RequestParams : Call(msg, params)
    \/ InitialGenerationReturns
    \/ \E evaluation_result \in EvaluationResult : EvaluatorReturns(evaluation_result)
    \/ RefinementReturns
    \/ GeneratorFails
    \/ \E e \in {"EvaluatorError", "ValidationError"} : EvaluatorFails(e)
    \/ Cancelled
    \/ Switch

ConcurrentSpec == ConcurrentInit /\ [][ConcurrentNext]_vars

\* C15 as stated: while two generate calls interleave, the history readable
\* for a call holds exactly the records that call appended, in order, and
\* no step of one call changes the records, best_response or best_rating of
\* the other.
C15_PrivateState_AsStated ==
    (InFlight /\ parked.pc \in {"generating", "evaluating", "refining"}) =>
        /\ refinement_history = appended
        /\ refinement_history = parked.appended
        /\ Len(refinement_history) = parked.refinement_count
               + (IF parked.pc = "refining" THEN 1 ELSE 0)

\* ---- prompts and call arguments ----------------------------------------------------
\* The tokens of a text, and the part of it between two tags.
Tokens(text) == {text[i] : i \in 1..Len(text)}
IndexOf(text, token) == CHOOSE i \in 1..Len(text) : text[i] = token
Between(text, open, close) ==
    SubSeq(text, IndexOf(text, open) + 1, IndexOf(text, close) - 1)
LastRecord == refinement_history[Len(refinement_history)]

\* C16 as stated: for every evaluator form the constructor accepts, each
\* iteration builds an evaluation prompt embedding the original request, the
\* current candidate and the evaluator's criteria and then calls the
\* evaluator with it; building the prompt never fails.
C16_EvalPrompt_AsStated ==
    /\ (pc \notin {"new", "construct_failed"}) => error # "AttributeError"
    /\ (pc = "evaluating") =>
        /\ sent.to = "evaluator"
        /\ Between(sent.message, "<fastagent:request>", "</fastagent:request>")
               = <<message>>
        /\ Between(sent.message, "<fastagent:response>", "</fastagent:response>")
               = <<CandidateText(response)>>
        /\ Between(sent.message, "<fastagent:evaluation-criteria>",
                   "</fastagent:evaluation-criteria>") = <<EvaluatorInstruction>>

\* C17: every refinement prompt embeds the original request and the feedback
\* block; with history_enabled it leaves out the previous-response block and
\* its instruction refers to the conversation history; without, it embeds
\* the prior candidate verbatim and makes no such reference.
C17_RefinementPrompt ==
    (pc = "refining") =>
        LET prompt == sent.message
            feedback == LastRecord.evaluation_result
            block == Between(prompt, "<fastagent:feedback>", "</fastagent:feedback>")
            reference ==
                "Your previous response is available in your conversation history."
        IN  /\ sent.to = "generator"
            /\ Between(prompt, "<fastagent:request>", "</fastagent:request>")
                   = <<message>>
            /\ Between(block, "<rating>", "</rating>") = <<RatingText(feedback.rating)>>
            /\ Between(block, "<details>", "</details>") = <<feedback.feedback>>
            /\ "<focus-areas>" \in Tokens(block) /\ "</focus-areas>" \in Tokens(block)
            /\ history_enabled =>
                 /\ "<fastagent:previous-response>" \notin Tokens(prompt)
                 /\ CandidateText(LastRecord.response) \notin Tokens(prompt)
                 /\ reference \in Tokens(prompt)
            /\ ~history_enabled =>
                 /\ Between(prompt, "<fastagent:previous-response>",
                            "</fastagent:previous-response>")
                        = <<CandidateText(LastRecord.response)>>
                 /\ reference \notin Tokens(prompt)

\* C17 witness: a second refinement prompt of a generator that retains its
\* history.
C17_Witness ==
    /\ pc = "refining"
    /\ history_enabled
    /\ refinement_count = 1
    /\ LastRecord.response = 2

\* C18: the focus-areas field of a refinement prompt is the focus areas in
\* their order, joined by ", ", when there are any, and exactly
\* "None specified" when there are none.
C18_FocusAreasField ==
    (pc = "refining") =>
        LET field == Between(sent.message, "<focus-areas>", "</focus-areas>")
            areas == LastRecord.evaluation_result.focus_areas
        IN  IF areas = <<>>
            THEN field = <<"None specified">>
            ELSE /\ Len(field) = 2 * Len(areas) - 1
                 /\ \A i \in 1..Len(areas) : field[2 * i - 1] = areas[i]
                 /\ \A i \in 1..(Len(areas) - 1) : field[2 * i] = ", "

\* C18 witness: a refinement prompt for an evaluation without focus areas.
C18_Witness ==
    /\ pc = "refining"
    /\ LastRecord.evaluation_result.focus_areas = <<>>
    /\ "None specified" \in Tokens(sent.message)

\* C19: every generator and evaluator call of a generate call gets the
\* caller's request_params, and generate leaves min_rating and
\* max_refinements as they were.
C19_ConfigPassedThrough ==
    /\ [](InFlight => (sent.to # "nobody" /\ sent.request_params = request_params))
    /\ [][(calls' # calls /\ Len(calls') > 0) =>
            /\ sent'.to = calls'[Len(calls')]
            /\ sent'.request_params = request_params']_vars
    /\ [][/\ min_rating' = min_rating
          /\ max_refinements' = max_refinements
          /\ Running => request_params' = request_params]_vars

\* C19 witness: a refinement call carrying the caller's params.
C19_Witness ==
    /\ pc = "refining"
    /\ request_params = "params"
    /\ sent.to = "generator"
    /\ sent.request_params = "params"
    /\ refinement_count = 1

\* ---- the loop: order of calls, history, returned candidate -----------------------
\* C26: the collaborator calls of one generate call alternate, generator
\* first: the odd calls go to the generator and the even ones to the
\* evaluator; a call is issued only by the step in which the call before it
\* is answered, so at most one is in flight, and it is the latest one.
C26_CallsAlternate ==
    /\ [](\A i \in 1..Len(calls) :
             calls[i] = (IF i % 2 = 1 THEN "generator" ELSE "evaluator"))
    /\ [](InFlight => (Len(calls) > 0 /\ sent.to = calls[Len(calls)]))
    /\ [][(calls' # calls /\ Len(calls') > 1) =>
             /\ InFlight
             /\ Len(calls') = Len(calls) + 1
             /\ SubSeq(calls', 1, Len(calls)) = calls]_vars
    /\ [][(calls' # calls /\ Len(calls') <= 1) => ~InFlight]_vars

\* C26 witness: the second evaluation is awaited after generator, evaluator,
\* generator, evaluator.
C26_Witness ==
    /\ pc = "evaluating"
    /\ calls = <<"generator", "evaluator", "generator", "evaluator">>

\* The evaluator calls of this generate call that have returned a result.
EvaluatorCallsCompleted ==
    EvaluatorCalls
        - (IF sent.to = "evaluator" /\ pc \in {"evaluating", "failed"} THEN 1 ELSE 0)

\* C27: refinement history is empty when a generate call starts and only
\* grows by appending during the call; its length is the number of
\* evaluator calls that have returned in this call; its i-th record has
\* attempt i, the candidate evaluated in iteration i (the one the i-th
\* generator call produced) and the evaluation on which iteration i decided;
\* it holds exactly the records this call appended, none of an earlier call.
C27_HistoryFreshAppendOnly ==
    /\ [][(pc \in Ended /\ pc' \notin Ended) => refinement_history' = <<>>]_vars
    /\ [][(pc \notin Ended) =>
             \/ refinement_history' = refinement_history
             \/ /\ pc = "evaluating"
                /\ Len(refinement_history') = Len(refinement_history) + 1
                /\ SubSeq(refinement_history', 1, Len(refinement_history))
                      = refinement_history
                /\ LET record == refinement_history'[Len(refinement_history')]
                   IN  /\ record.response = response
                       /\ (pc' = "returned") <=>
                              \/ record.evaluation_result.rating >= min_rating
                              \/ ~record.evaluation_result.needs_improvement]_vars
    /\ [](Len(refinement_history) = EvaluatorCallsCompleted)
    /\ [](\A i \in Records :
             /\ refinement_history[i].attempt = i
             /\ refinement_history[i].response = i)
    /\ [](refinement_history = appended)

\* C27 witness: a call has returned after three evaluations.
C27_Witness ==
    /\ Returned
    /\ Len(refinement_history) = 3
    /\ refinement_history[3].attempt = 3
    /\ refinement_history[3].response = 3
    /\ EvaluatorCalls = 3

\* C28: when generate returns because the latest evaluation's rating is at
\* least min_rating, the value returned is the candidate that was just
\* evaluated, whichever min_rating and whatever evaluations came before.
C28_AcceptedIsReturned ==
    (Returned /\ Len(refinement_history) > 0
        /\ LastRecord.evaluation_result.rating >= min_rating) =>
        /\ result = LastRecord.response
        /\ result = response
        /\ result = GeneratorCalls

\* C28 witness: the third candidate was accepted on its rating alone, after
\* two evaluations that did not accept.
C28_Witness ==
    /\ Returned
    /\ Len(refinement_history) = 3
    /\ RatingAt(3) >= min_rating
    /\ NeedsAt(3)
    /\ result = 3

\* generate returned because the loop was exhausted: the latest generator
\* call was a refinement and no evaluation followed it.
Exhausted ==
    /\ Returned
    /\ max_refinements >= 1
    /\ calls[Len(calls)] = "generator"

\* C29: with max_refinements >= 1 the returned candidate is one that was
\* evaluated in this call; when the loop is exhausted the candidate of the
\* last refinement call is in no record and is not the value returned; with
\* max_refinements = 0 the initial candidate is returned and the evaluator
\* is never called.
C29_ReturnedWasEvaluated ==
    /\ (Returned /\ max_refinements >= 1) =>
          \E i \in Records : refinement_history[i].response = result
    /\ Exhausted =>
          /\ response = GeneratorCalls
          /\ Len(refinement_history) = max_refinements
          /\ \A i \in Records : refinement_history[i].response # response
          /\ result # response
    /\ (Returned /\ max_refinements = 0) =>
          /\ result = 1
          /\ calls = <<"generator">>
          /\ refinement_history = <<>>

\* C29 witness: two refinements allowed and both used; the third candidate
\* was produced, not evaluated, and an earlier one was returned.
C29_Witness ==
    /\ Exhausted
    /\ max_refinements = 2
    /\ calls = <<"generator", "evaluator", "generator", "evaluator", "generator">>
    /\ response = 3
    /\ result \in {1, 2}

====
